---- MODULE Spec2Model ----
(***************************************************************************)
(* U2FManager (src/manager.rs): the caller-facing facade, the action queue *)
(* it feeds and the worker thread that drains the queue into the session   *)
(* engine (StateMachine).                                                  *)
(*                                                                         *)
(* Threads of the model:                                                   *)
(*   - one caller thread, which invokes fido2_capable / register / sign /  *)
(*     cancel on the manager and finally drops it.  register and cancel    *)
(*     perform a single send and are one step each; sign performs one send *)
(*     per (app id, key handle) pair and is one step per send, so that the *)
(*     worker may dequeue in between;                                      *)
(*   - the worker thread started in U2FManager::new (its position is wpc); *)
(*   - the engine's own execution context, which completes operations that *)
(*     were dispatched to it by invoking their callbacks.                  *)
(*                                                                         *)
(* Specifications: Spec (the three threads, well-formed requests),         *)
(* SpecArgs (one call with arbitrary arguments, the caller alone),         *)
(* SpecThreads (a second calling thread whose cancel calls arrive in the   *)
(* middle of a sign call), SpecEncode (one register call completed by the  *)
(* engine with any attestation object), SpecLive (Spec with sign limited to *)
(* one key handle, under fairness of the worker and of the engine's        *)
(* cancel), SpecFilter (SpecLive's steps and fido2_capable).               *)
(*                                                                         *)
(* Byte strings (challenge, application id, credential) are records        *)
(* [tag, len]: len is the length the code tests, tag tells two strings of  *)
(* equal length apart.  The timeout argument is handed through to the      *)
(* engine untouched and is left out; sign never reads its flags argument.  *)
(***************************************************************************)
EXTENDS Integers, Sequences, FiniteSets

VARIABLES
    queue,      \* the mpsc channel between tx and rx: actions sent, not yet received
    alive,      \* the RunLoop's liveness flag, read by alive()
    wpc,        \* the worker's position in the closure of U2FManager::new
    wcancel,    \* seq number of the Cancel the worker is executing (0: the final cancel)
    pending,    \* engine: operations dispatched by sm.register / sm.sign, still running
    taken,      \* OnceCallback cells whose handler has been taken (already fired)
    fired,      \* per call: the results the caller's handler was invoked with
    filter,     \* U2FManager.filter
    cpc,        \* the caller thread's position
    cur,        \* the sign call in progress: its arguments and loop position
    last,       \* the call that returned in the step into this state: its arguments,
                \* the actions it sent and its result (NoLast after any other step)
    calls,      \* history: per call made so far, its kind and its result
    called,     \* history: per call, how many of its callbacks the engine has called
    sent,       \* history: type and call of every action ever sent, in send order
    elog        \* history: every engine call made by the worker, in call order

vars == <<queue, alive, wpc, wcancel, pending, taken, fired, filter,
          cpc, cur, last, calls, called, sent, elog>>

-----------------------------------------------------------------------------
(* Bounds of the model *)

MaxCalls == 3        \* register / sign / cancel calls made by the caller
MaxAppIds == 2       \* longest app_ids list passed to sign
MaxKeyHandles == 2   \* longest key_handles list passed to register / sign
MaxCerts == 2        \* longest attestation_cert list of an attestation statement

(* Program constants *)

PARAMETER_SIZE == 32
MaxCredentialLen == 256

-----------------------------------------------------------------------------
(* Input values *)

B(t, l) == [tag |-> t, len |-> l]

ChallengeValues == {B(1, PARAMETER_SIZE), B(2, PARAMETER_SIZE - 1), B(3, PARAMETER_SIZE + 1)}
AppIdValues == {B(1, PARAMETER_SIZE), B(2, PARAMETER_SIZE), B(3, PARAMETER_SIZE - 1)}
KeyHandleValues == {B(1, 64), B(2, MaxCredentialLen), B(3, MaxCredentialLen + 1)}
FlagValues == {{}, {"REQUIRE_USER_VERIFICATION"}}

SeqsUpTo(S, n) == UNION {[1..k -> S] : k \in 0..n}

Calls == 1..MaxCalls

-----------------------------------------------------------------------------
(* Option<T>: None is <<>>, Some(x) is <<x>> *)

None == <<>>
Some(x) == <<x>>

(* MakeCredentialsOptions { user_validation, ..default() } *)
MakeCredentialsOptions(uv) == [user_validation |-> uv]

(* RelyingParty::new_hash: the application id taken as the relying party's  *)
(* hash; fails unless it is a hash-sized value.                             *)
NewHashOk(app) == app.len = PARAMETER_SIZE
NewHash(app) == [hash |-> app]

(* OnceCallback::new for a call's handler, and the cell a clone made for    *)
(* the (i, j)-th pair of a sign call refers to: clone() shares the cell.    *)
OnceCallbackNew(c) == <<c, 0, 0>>
CallbackCloneFresh(cell, i, j) == <<cell[1], i, j>>
CallbackClone(cell, i, j) == cell

-----------------------------------------------------------------------------
(* Request construction (U2FManager::register, U2FManager::sign) *)

(* CollectedClientData { type_, challenge, origin: None, token_binding: None } *)
ClientData(type, challenge) ==
    [type_ |-> type, challenge |-> challenge, origin |-> None, token_binding |-> None]

(* Both lengths wrong, where the code rejects either *)
RegisterChallengeAndAppBad(challenge, application) ==
    challenge.len # PARAMETER_SIZE /\ application.len # PARAMETER_SIZE

(* The checks register makes before it builds anything: lines 123 and 137 *)
RegisterChallengeOrAppBad(challenge, application) ==
    challenge.len # PARAMETER_SIZE \/ application.len # PARAMETER_SIZE

KeyHandleTooLong(key_handle) == key_handle.len > MaxCredentialLen

RegisterOptions(flags) ==
    MakeCredentialsOptions("REQUIRE_USER_VERIFICATION" \in flags)

(* MakeCredentials::new(client_data, rp, None, Vec::new(), excluded_handles, *)
(* None, None): the options built from the flags are not among its          *)
(* arguments; the options argument is None.                                 *)
RegisterRequest(flags, challenge, application, key_handles) ==
    LET options == RegisterOptions(flags)
    IN  [client_data |-> ClientData("Create", challenge),
         rp |-> NewHash(application),
         user |-> None,
         pub_cred_params |-> <<>>,
         exclude_list |-> key_handles,
         options |-> None,
         pin |-> None]

(* GetAssertion::new(client_data.clone(), rp, vec![key_handle.into()],      *)
(* Some(options), None) with options.user_validation fixed to true          *)
SignRequest(challenge, app_id, key_handle) ==
    [client_data |-> ClientData("Get", challenge),
     rp |-> NewHash(app_id),
     allow_list |-> <<key_handle>>,
     options |-> Some(MakeCredentialsOptions(TRUE)),
     pin |-> None]

(* The i-th action ever sent has seq i *)
NextSeq == Len(sent) + 1

RegisterAction(c, flags, challenge, application, key_handles) ==
    [type |-> "Register", call |-> c, seq |-> NextSeq,
     params |-> RegisterRequest(flags, challenge, application, key_handles),
     callback |-> OnceCallbackNew(c)]

SignAction(c, challenge, app_id, key_handle, i, j) ==
    [type |-> "Sign", call |-> c, seq |-> NextSeq,
     params |-> SignRequest(challenge, app_id, key_handle),
     callback |-> CallbackClone(OnceCallbackNew(c), i, j)]

CancelAction(c) ==
    [type |-> "Cancel", call |-> c, seq |-> NextSeq, params |-> None, callback |-> None]

-----------------------------------------------------------------------------
(* The channel *)

(* The receiver lives in the worker's closure: it is gone when the worker   *)
(* thread has ended, and tx.send fails from then on.                        *)
ReceiverGone == wpc = "exited"

(* tx.send(action): TRUE when the action was enqueued *)
SendOk == ~ReceiverGone

(* A channel that hands out the newest action first *)
SendFront(action) ==
    IF SendOk
    THEN /\ queue' = <<action>> \o queue
         /\ sent' = Append(sent, [type |-> action.type, call |-> action.call])
    ELSE UNCHANGED <<queue, sent>>

Send(action) ==
    IF SendOk
    THEN /\ queue' = Append(queue, action)
         /\ sent' = Append(sent, [type |-> action.type, call |-> action.call])
    ELSE UNCHANGED <<queue, sent>>

-----------------------------------------------------------------------------
(* The caller thread *)

NumCalls == Cardinality({c \in Calls : calls[c].kind # "none"})

NoCall == [id |-> 0, challenge |-> B(0, 0), apps |-> <<>>, keys |-> <<>>, k |-> 0,
           acts |-> <<>>]

NoLast == [id |-> 0, kind |-> "none", flags |-> {}, challenge |-> B(0, 0),
           apps |-> <<>>, keys |-> <<>>, acts |-> <<>>, ret |-> "none"]

(* The record of a call that returns in this step *)
Returned(kind, flags, challenge, apps, keys, acts, ret) ==
    [id |-> NumCalls + 1, kind |-> kind, flags |-> flags, challenge |-> challenge,
     apps |-> apps, keys |-> keys, acts |-> acts, ret |-> ret]

CanCall == cpc = "idle" /\ NumCalls < MaxCalls

(* fido2_capable that also asks the worker to cancel what is in flight *)
Fido2CapableAndCancel ==
    /\ cpc = "idle"
    /\ filter' = Some("Fido2")
    /\ Send(CancelAction(0))
    /\ last' = NoLast
    /\ UNCHANGED <<alive, wpc, wcancel, pending, taken, fired,
                   cpc, cur, calls, called, elog>>

(* U2FManager::fido2_capable *)
Fido2Capable ==
    /\ cpc = "idle"
    /\ filter' = Some("Fido2")
    /\ last' = NoLast
    /\ UNCHANGED <<queue, alive, wpc, wcancel, pending, taken, fired,
                   cpc, cur, calls, called, sent, elog>>

(* U2FManager::register rejects its arguments: lines 123, 137 and 194 *)
RegisterRejects(challenge, application, key_handles) ==
    \/ RegisterChallengeOrAppBad(challenge, application)
    \/ \E n \in 1..Len(key_handles) : KeyHandleTooLong(key_handles[n])
    \/ ~NewHashOk(application)

(* U2FManager::register *)
Register(flags, challenge, application, key_handles) ==
    /\ CanCall
    /\ LET c == NumCalls + 1
           action == RegisterAction(c, flags, challenge, application, key_handles)
           ok == ~RegisterRejects(challenge, application, key_handles) /\ SendOk
           ret == IF ok THEN "Ok" ELSE "Err"
       IN  /\ IF ~RegisterRejects(challenge, application, key_handles)
              THEN Send(action)
              ELSE UNCHANGED <<queue, sent>>
           /\ last' = Returned("register", flags, challenge, <<application>>,
                               key_handles, IF ok THEN <<action>> ELSE <<>>, ret)
           /\ calls' = [calls EXCEPT ![c] = [kind |-> "register", ret |-> ret]]
    /\ UNCHANGED <<alive, wpc, wcancel, pending, taken, fired, filter, cpc, cur,
                   called, elog>>

(* The challenge check alone, without the check of the app_ids list *)
SignRejectsChallengeOnly(challenge, app_ids) ==
    challenge.len # PARAMETER_SIZE

(* U2FManager::sign rejects before its loops: lines 227-236 *)
SignRejects(challenge, app_ids) ==
    \/ challenge.len # PARAMETER_SIZE
    \/ Len(app_ids) = 0

(* U2FManager::sign up to its loops *)
SignBegin(challenge, app_ids, key_handles) ==
    /\ CanCall
    /\ LET c == NumCalls + 1
       IN  IF SignRejects(challenge, app_ids)
           THEN /\ last' = Returned("sign", {}, challenge, app_ids, key_handles,
                                    <<>>, "Err")
                /\ calls' = [calls EXCEPT ![c] = [kind |-> "sign", ret |-> "Err"]]
                /\ UNCHANGED <<cpc, cur>>
           ELSE /\ last' = NoLast
                /\ calls' = [calls EXCEPT ![c] = [kind |-> "sign", ret |-> "pending"]]
                /\ cur' = [id |-> c, challenge |-> challenge, apps |-> app_ids,
                           keys |-> key_handles, k |-> 0, acts |-> <<>>]
                /\ cpc' = "signing"
    /\ UNCHANGED <<queue, alive, wpc, wcancel, pending, taken, fired, filter,
                   called, sent, elog>>

(* The loops nested the other way round: the application id is the one    *)
(* that changes from one run to the next                                    *)
PairAppInner(k) == (k % Len(cur.apps)) + 1

(* The pair the loops of sign reach after k runs of the inner body:         *)
(* app_ids outer, key_handles inner                                         *)
PairApp(k) == (k \div Len(cur.keys)) + 1
PairKey(k) == (k % Len(cur.keys)) + 1
SignPairs == Len(cur.apps) * Len(cur.keys)

SignReturns(ret) ==
    /\ last' = [id |-> cur.id, kind |-> "sign", flags |-> {},
                challenge |-> cur.challenge, apps |-> cur.apps, keys |-> cur.keys,
                acts |-> cur.acts, ret |-> ret]
    /\ calls' = [calls EXCEPT ![cur.id] = [kind |-> "sign", ret |-> ret]]
    /\ cur' = NoCall
    /\ cpc' = "idle"

(* One run of the inner loop body: lines 268-291 *)
SignStep ==
    /\ cpc = "signing"
    /\ cur.k < SignPairs
    /\ LET i == PairApp(cur.k)
           j == PairKey(cur.k)
           app_id == cur.apps[i]
           key_handle == cur.keys[j]
           action == SignAction(cur.id, cur.challenge, app_id, key_handle, i, j)
       IN  IF KeyHandleTooLong(key_handle) \/ ~NewHashOk(app_id)
           THEN /\ SignReturns("Err")
                /\ UNCHANGED <<queue, sent>>
           ELSE /\ Send(action)
                /\ IF SendOk
                   THEN /\ cur' = [cur EXCEPT !.k = @ + 1, !.acts = Append(@, action)]
                        /\ last' = NoLast
                        /\ UNCHANGED <<cpc, calls>>
                   ELSE SignReturns("Err")
    /\ UNCHANGED <<alive, wpc, wcancel, pending, taken, fired, filter, called, elog>>

(* Both loops are done: Ok(()) at line 294 *)
SignReturn ==
    /\ cpc = "signing"
    /\ cur.k = SignPairs
    /\ SignReturns("Ok")
    /\ UNCHANGED <<queue, alive, wpc, wcancel, pending, taken, fired, filter,
                   called, sent, elog>>

(* U2FManager::cancel *)
Cancel ==
    /\ CanCall
    /\ LET c == NumCalls + 1
           action == CancelAction(c)
           ret == IF SendOk THEN "Ok" ELSE "Err"
       IN  /\ Send(action)
           /\ last' = Returned("cancel", {}, B(0, 0), <<>>, <<>>,
                               IF SendOk THEN <<action>> ELSE <<>>, ret)
           /\ calls' = [calls EXCEPT ![c] = [kind |-> "cancel", ret |-> ret]]
    /\ UNCHANGED <<alive, wpc, wcancel, pending, taken, fired, filter, cpc, cur,
                   called, elog>>

(* U2FManager::cancel called by another thread of the application while    *)
(* the caller thread is inside sign: the call is one send, as in Cancel.    *)
(* (A call made by another thread while the caller thread is between calls  *)
(* is a step the caller thread can take as well.)                           *)
CancelDuringSign ==
    /\ cpc = "signing"
    /\ NumCalls < MaxCalls
    /\ LET c == NumCalls + 1
           action == CancelAction(c)
           ret == IF SendOk THEN "Ok" ELSE "Err"
       IN  /\ Send(action)
           /\ calls' = [calls EXCEPT ![c] = [kind |-> "cancel", ret |-> ret]]
    /\ last' = NoLast
    /\ UNCHANGED <<alive, wpc, wcancel, pending, taken, fired, filter, cpc, cur,
                   called, elog>>

(* Drop for U2FManager: self.queue.cancel() clears the liveness flag ...    *)
DropBegin ==
    /\ cpc = "idle"
    /\ alive' = FALSE
    /\ cpc' = "dropping"
    /\ last' = NoLast
    /\ UNCHANGED <<queue, wpc, wcancel, pending, taken, fired, filter,
                   cur, calls, called, sent, elog>>

(* ... and joins the worker thread (RunLoop::cancel) *)
RunLoopJoined == wpc = "exited"

(* drop() returns; the fields, tx among them, are dropped after it *)
DropReturn ==
    /\ cpc = "dropping"
    /\ cpc' = "dropped"
    /\ last' = NoLast
    /\ UNCHANGED <<queue, alive, wpc, wcancel, pending, taken, fired, filter,
                   cur, calls, called, sent, elog>>

DropEndNoJoin == DropReturn

DropEnd == RunLoopJoined /\ DropReturn

(* Every Sender is gone: recv_timeout on an empty queue reports Disconnected *)
SenderGone == cpc = "dropped"

-----------------------------------------------------------------------------
(* The session engine (StateMachine) and the callbacks it is given *)

(* sm.register / sm.sign: start the operation and return *)
EngineStart(action) == pending' = pending \cup {action}

(* sm.cancel returns once every operation dispatched before it has stopped *)
EngineStopped == pending = {}

(* OnceCallback::call: the handler runs if no clone of the cell has taken it *)
CallbackCall(action, outcome) ==
    /\ called' = [called EXCEPT ![action.call] = @ + 1]
    /\ IF action.callback \in taken
       THEN UNCHANGED <<taken, fired>>
       ELSE /\ taken' = taken \cup {action.callback}
            /\ fired' = [fired EXCEPT ![action.call] = Append(@, outcome)]

(* What an operation reports through its callback: a result, an error of   *)
(* its own, or the error it reports when a cancel stops it                  *)
Outcomes == {"ok", "err", "cancelled"}

Cancelling == wpc \in {"cancel", "final_cancel"}

(* An operation in flight ends, by itself or stopped by the cancel in       *)
(* progress, and reports through its callback                               *)
EngineComplete(action, outcome) ==
    /\ action \in pending
    /\ outcome = "cancelled" => Cancelling
    /\ pending' = pending \ {action}
    /\ CallbackCall(action, outcome)
    /\ last' = NoLast
    /\ UNCHANGED <<queue, alive, wpc, wcancel, filter, cpc, cur, calls, sent, elog>>

-----------------------------------------------------------------------------
(* The transform register composes onto its callback: lines 150-192 *)

(* A byte string of n bytes, the i-th being (b + i) mod 256 *)
Bytes(n, b) == [i \in 1..n |-> (b + i) % 256]

(* What the engine may hand to a register callback: an AttestationObject    *)
(* whose auth_data.credential_data is None or Some of a public key and a    *)
(* credential id, and whose att_statement is FidoU2F(attestation_cert, sig) *)
(* or of another format                                                     *)
PublicKeyValues == {Bytes(65, 3), Bytes(2, 9)}
CredentialIdValues == {Bytes(n, 16) : n \in {0, 1, 64, MaxCredentialLen - 1, MaxCredentialLen}}
CertValues == {Bytes(3, 47), Bytes(2, 200)}
SignatureValues == {<<>>, Bytes(4, 100)}

CredentialDataValues ==
    {None} \cup
    {Some([credential_public_key |-> pk, credential_id |-> id]) :
        pk \in PublicKeyValues, id \in CredentialIdValues}

StatementValues ==
    {[fmt |-> "None", attestation_cert |-> <<>>, sig |-> <<>>]} \cup
    [fmt : {"FidoU2F"}, attestation_cert : SeqsUpTo(CertValues, MaxCerts),
     sig : SignatureValues]

AttestationValues ==
    [auth_data : [credential_data : CredentialDataValues],
     att_statement : StatementValues]

(* n as u8 *)
AsU8(n) == n % 256

(* cursor.write_all(bytes) on a cursor over a Vec that starts empty *)
WriteAll(cursor, bytes) == cursor \o bytes

(* The closure does not return: unwrap of None (line 161), the panic! of    *)
(* line 180, attestation_cert[0] of an empty list (line 183)                *)
Panicked == [ok |-> FALSE, bytes |-> <<>>]
Returns(bytes) == [ok |-> TRUE, bytes |-> bytes]

(* The closure with the key handle and its length written ahead of the      *)
(* public key                                                               *)
RegisterResponseKeyHandleFirst(attestation_object) ==
    LET data == attestation_object.auth_data.credential_data
        stmt == attestation_object.att_statement
    IN  IF data = None \/ stmt.fmt # "FidoU2F" \/ stmt.attestation_cert = <<>>
        THEN Panicked
        ELSE Returns(<<5>> \o <<AsU8(Len(data[1].credential_id))>>
                     \o data[1].credential_id \o data[1].credential_public_key
                     \o stmt.attestation_cert[1] \o stmt.sig)

(* The closure returning what it has written when the statement is not      *)
(* FidoU2F                                                                  *)
RegisterResponseNoPanic(attestation_object) ==
    LET data == attestation_object.auth_data.credential_data
        stmt == attestation_object.att_statement
    IN  IF data = None THEN Panicked
        ELSE LET written == <<5>> \o data[1].credential_public_key
                            \o <<AsU8(Len(data[1].credential_id))>>
                            \o data[1].credential_id
             IN  IF stmt.fmt # "FidoU2F" THEN Returns(written)
                 ELSE IF stmt.attestation_cert = <<>> THEN Panicked
                 ELSE Returns(written \o stmt.attestation_cert[1] \o stmt.sig)

(* The closure of lines 151-191, statement by statement *)
RegisterResponse(attestation_object) ==
    LET cursor0 == <<>>
        cursor1 == WriteAll(cursor0, <<5>>)
        data == attestation_object.auth_data.credential_data
    IN  IF data = None THEN Panicked
        ELSE LET credential_data == data[1]
                 cursor2 == WriteAll(cursor1, credential_data.credential_public_key)
                 cursor3 == WriteAll(cursor2, <<AsU8(Len(credential_data.credential_id))>>)
                 cursor4 == WriteAll(cursor3, credential_data.credential_id)
                 stmt == attestation_object.att_statement
             IN  IF stmt.fmt # "FidoU2F" THEN Panicked
                 ELSE IF stmt.attestation_cert = <<>> THEN Panicked
                 ELSE LET cursor5 == WriteAll(cursor4, stmt.attestation_cert[1])
                          cursor6 == WriteAll(cursor5, stmt.sig)
                      IN  Returns(cursor6)

(* The engine completes a Register with Ok((attestation_object, client      *)
(* data)): the callback applies the transform to it and calls the caller's  *)
(* handler with what the transform returns; a transform that panics returns *)
(* nothing and the handler is not called.                                   *)
EngineCompleteRegister(action, attestation_object) ==
    /\ action \in pending
    /\ action.type = "Register"
    /\ pending' = pending \ {action}
    /\ LET response == RegisterResponse(attestation_object)
       IN  /\ IF response.ok
              THEN CallbackCall(action, [ok |-> response.bytes])
              ELSE UNCHANGED <<called, taken, fired>>
           /\ last' = [id |-> action.call, kind |-> "register_result",
                       attestation_object |-> attestation_object,
                       ret |-> IF response.ok THEN "Ok" ELSE "panic"]
    /\ UNCHANGED <<queue, alive, wpc, wcancel, filter, cpc, cur, calls, sent, elog>>

-----------------------------------------------------------------------------
(* The worker thread: the closure given to RunLoop::new *)

(* A loop that goes on while the flag is set or the queue holds an action *)
WorkerWhileDrains ==
    /\ wpc = "loop"
    /\ wpc' = IF alive \/ queue # <<>> THEN "recv" ELSE "final"
    /\ last' = NoLast
    /\ UNCHANGED <<queue, alive, wcancel, pending, taken, fired, filter,
                   cpc, cur, calls, called, sent, elog>>

(* while alive() *)
WorkerWhile ==
    /\ wpc = "loop"
    /\ wpc' = IF alive THEN "recv" ELSE "final"
    /\ last' = NoLast
    /\ UNCHANGED <<queue, alive, wcancel, pending, taken, fired, filter,
                   cpc, cur, calls, called, sent, elog>>

Received(type) == wpc = "recv" /\ queue # <<>> /\ Head(queue).type = type

(* The worker waiting, after the dispatch, for the operation it dispatched *)
WorkerRegisterBlocking ==
    /\ Received("Register")
    /\ queue' = Tail(queue)
    /\ EngineStart(Head(queue))
    /\ elog' = Append(elog, <<"register", Head(queue).seq>>)
    /\ wpc' = "busy"
    /\ last' = NoLast
    /\ UNCHANGED <<alive, wcancel, taken, fired, filter, cpc, cur, calls, called, sent>>

(* Ok(QueueAction::Register {..}) => sm.register(..) *)
WorkerRegister ==
    /\ Received("Register")
    /\ queue' = Tail(queue)
    /\ EngineStart(Head(queue))
    /\ elog' = Append(elog, <<"register", Head(queue).seq>>)
    /\ wpc' = "loop"
    /\ last' = NoLast
    /\ UNCHANGED <<alive, wcancel, taken, fired, filter, cpc, cur, calls, called, sent>>

(* Ok(QueueAction::Sign {..}) => sm.sign(..) *)
WorkerSign ==
    /\ Received("Sign")
    /\ queue' = Tail(queue)
    /\ EngineStart(Head(queue))
    /\ elog' = Append(elog, <<"sign", Head(queue).seq>>)
    /\ wpc' = "loop"
    /\ last' = NoLast
    /\ UNCHANGED <<alive, wcancel, taken, fired, filter, cpc, cur, calls, called, sent>>

(* Ok(QueueAction::Cancel) => sm.cancel(): the worker enters the call and   *)
(* is at position next until the call returns                               *)
WorkerCancelAt(next) ==
    /\ Received("Cancel")
    /\ queue' = Tail(queue)
    /\ elog' = Append(elog, <<"cancel_begin", Head(queue).seq>>)
    /\ wcancel' = Head(queue).seq
    /\ wpc' = next
    /\ last' = NoLast
    /\ UNCHANGED <<alive, pending, taken, fired, filter, cpc, cur, calls, called, sent>>

WorkerCancelNoWait == WorkerCancelAt("loop")

WorkerCancel == WorkerCancelAt("cancel")

WorkerCancelReturn ==
    /\ wpc = "cancel"
    /\ EngineStopped
    /\ elog' = Append(elog, <<"cancel_end", wcancel>>)
    /\ wpc' = "loop"
    /\ last' = NoLast
    /\ UNCHANGED <<queue, alive, wcancel, pending, taken, fired, filter,
                   cpc, cur, calls, called, sent>>

(* A receive without a timeout: on an empty queue the worker goes on        *)
(* waiting until the last sender is gone                                    *)
WorkerRecvNoTimeout ==
    /\ wpc = "recv"
    /\ queue = <<>>
    /\ wpc' = IF SenderGone THEN "final" ELSE "recv"
    /\ last' = NoLast
    /\ UNCHANGED <<queue, alive, wcancel, pending, taken, fired, filter,
                   cpc, cur, calls, called, sent, elog>>

(* recv_timeout found nothing within 50 ms: Disconnected breaks out of the  *)
(* loop, Timeout goes round it                                              *)
WorkerRecvErr ==
    /\ wpc = "recv"
    /\ queue = <<>>
    /\ wpc' = IF SenderGone THEN "final" ELSE "loop"
    /\ last' = NoLast
    /\ UNCHANGED <<queue, alive, wcancel, pending, taken, fired, filter,
                   cpc, cur, calls, called, sent, elog>>

(* The loop is left and the closure ends without the engine being called *)
WorkerFinalCancelSkipped ==
    /\ wpc = "final"
    /\ wpc' = "exited"
    /\ last' = NoLast
    /\ UNCHANGED <<queue, alive, wcancel, pending, taken, fired, filter,
                   cpc, cur, calls, called, sent, elog>>

(* After the loop: sm.cancel(), "Cancel any ongoing activity" *)
WorkerFinalCancel ==
    /\ wpc = "final"
    /\ elog' = Append(elog, <<"cancel_begin", 0>>)
    /\ wcancel' = 0
    /\ wpc' = "final_cancel"
    /\ last' = NoLast
    /\ UNCHANGED <<queue, alive, pending, taken, fired, filter, cpc, cur, calls,
                   called, sent>>

(* The final cancel returns and the closure ends: the thread is over *)
WorkerExit ==
    /\ wpc = "final_cancel"
    /\ EngineStopped
    /\ elog' = Append(elog, <<"cancel_end", 0>>)
    /\ wpc' = "exited"
    /\ last' = NoLast
    /\ UNCHANGED <<queue, alive, wcancel, pending, taken, fired, filter,
                   cpc, cur, calls, called, sent>>

-----------------------------------------------------------------------------
(* U2FManager::new: the state once the constructor has returned *)
Init ==
    /\ queue = <<>>
    /\ alive = TRUE
    /\ wpc = "loop"
    /\ wcancel = 0
    /\ pending = {}
    /\ taken = {}
    /\ fired = [c \in Calls |-> <<>>]
    /\ filter = None
    /\ cpc = "idle"
    /\ cur = NoCall
    /\ last = NoLast
    /\ calls = [c \in Calls |-> [kind |-> "none", ret |-> "none"]]
    /\ called = [c \in Calls |-> 0]
    /\ sent = <<>>
    /\ elog = <<>>

EngineStep ==
    \E action \in pending, outcome \in Outcomes : EngineComplete(action, outcome)

WorkerStep ==
    \/ WorkerWhile
    \/ WorkerRegister
    \/ WorkerSign
    \/ WorkerCancel
    \/ WorkerCancelReturn
    \/ WorkerRecvErr
    \/ WorkerFinalCancel
    \/ WorkerExit

(* Requests as a well-behaved application makes them, up to MaxCalls of     *)
(* them: a challenge and an application id of the right size; register      *)
(* excludes no key handle; sign is given no key handle, one, two, or a good *)
(* one followed by an oversized one.                                        *)
UsualKeyHandleLists ==
    {<<>>, <<B(1, 64)>>, <<B(1, 64), B(2, MaxCredentialLen)>>,
     <<B(1, 64), B(3, MaxCredentialLen + 1)>>}

(* The caller, the worker and the engine, all running *)
Next ==
    \/ Register({}, B(1, PARAMETER_SIZE), B(1, PARAMETER_SIZE), <<>>)
    \/ /\ CanCall
       /\ \E key_handles \in UsualKeyHandleLists :
            SignBegin(B(1, PARAMETER_SIZE), <<B(1, PARAMETER_SIZE)>>, key_handles)
    \/ SignStep
    \/ SignReturn
    \/ Cancel
    \/ DropBegin
    \/ DropEnd
    \/ EngineStep
    \/ WorkerStep

(* One register or sign call with arbitrary arguments: any of the flag,     *)
(* challenge, application id and key handle values, in lists of every       *)
(* length up to the bounds.  The call is made among cancel and             *)
(* fido2_capable calls, and what the calls send stays on the queue: the     *)
(* worker is not scheduled.                                                 *)
ArgCalls == Cardinality({c \in Calls : calls[c].kind \in {"register", "sign"}})

NextArgs ==
    \/ /\ CanCall /\ ArgCalls = 0
       /\ \E flags \in FlagValues, challenge \in ChallengeValues,
             application \in AppIdValues,
             key_handles \in SeqsUpTo(KeyHandleValues, MaxKeyHandles) :
            Register(flags, challenge, application, key_handles)
    \/ /\ CanCall /\ ArgCalls = 0
       /\ \E challenge \in ChallengeValues,
             app_ids \in SeqsUpTo(AppIdValues, MaxAppIds),
             key_handles \in SeqsUpTo(KeyHandleValues, MaxKeyHandles) :
            SignBegin(challenge, app_ids, key_handles)
    \/ SignStep
    \/ SignReturn
    \/ Cancel
    \/ Fido2Capable

(* Several threads of the application calling into the manager: register,  *)
(* sign with two key handles and cancel, and cancel calls that arrive in    *)
(* the middle of a sign call                                                *)
NextThreads ==
    \/ Register({}, B(1, PARAMETER_SIZE), B(1, PARAMETER_SIZE), <<>>)
    \/ SignBegin(B(1, PARAMETER_SIZE), <<B(1, PARAMETER_SIZE)>>,
                 <<B(1, 64), B(2, MaxCredentialLen)>>)
    \/ SignStep
    \/ SignReturn
    \/ Cancel
    \/ CancelDuringSign
    \/ DropBegin
    \/ DropEnd
    \/ EngineStep
    \/ WorkerStep

(* The engine stops an operation in flight for the cancel in progress *)
EngineCancelStep ==
    \E action \in pending : EngineComplete(action, "cancelled")

(* The worker thread runs whenever it can take a step; the engine stops     *)
(* what is in flight when it is asked to cancel; an operation need never    *)
(* end by itself, and the application need never make a call.               *)
Fairness ==
    /\ WF_vars(WorkerStep)
    /\ WF_vars(EngineCancelStep)

(* The calls of an application, sign with one key handle, under Fairness *)
NextLive ==
    \/ Register({}, B(1, PARAMETER_SIZE), B(1, PARAMETER_SIZE), <<>>)
    \/ SignBegin(B(1, PARAMETER_SIZE), <<B(1, PARAMETER_SIZE)>>, <<B(1, 64)>>)
    \/ SignStep
    \/ SignReturn
    \/ Cancel
    \/ DropBegin
    \/ DropEnd
    \/ EngineStep
    \/ WorkerStep

(* The calls of NextLive and fido2_capable, called at any time *)
NextFilter ==
    \/ NextLive
    \/ Fido2Capable

(* One register call, dispatched by the worker and completed by the engine  *)
(* with any of the attestation objects, or with an error                    *)
EngineRegisterDone ==
    \E action \in pending, attestation_object \in AttestationValues :
        EngineCompleteRegister(action, attestation_object)

NextEncode ==
    \/ /\ ArgCalls = 0
       /\ Register({}, B(1, PARAMETER_SIZE), B(1, PARAMETER_SIZE), <<>>)
    \/ WorkerWhile
    \/ WorkerRegister
    \/ WorkerRecvErr
    \/ EngineRegisterDone
    \/ EngineStep

Spec == Init /\ [][Next]_vars

SpecArgs == Init /\ [][NextArgs]_vars

SpecThreads == Init /\ [][NextThreads]_vars

SpecEncode == Init /\ [][NextEncode]_vars

SpecLive == Init /\ [][NextLive]_vars /\ Fairness

SpecFilter == Init /\ [][NextFilter]_vars

-----------------------------------------------------------------------------
(* Properties of the worker, the engine calls and the callbacks (Spec) *)

IsDispatch(e) == e[1] \in {"register", "sign"}
Positions == 1..Len(elog)

(* C1: cancel ordering.  Whenever the worker has dispatched a Register or   *)
(* Sign to the engine, every Cancel that was enqueued before that action    *)
(* and dequeued by the worker had its blocking engine cancel return before  *)
(* the dispatch: in the engine's call order, cancel-begin of the Cancel is  *)
(* followed by its cancel-end ahead of the later action's dispatch.         *)
CancelOrdering ==
    \A i, j \in Positions :
        ( /\ i < j
          /\ elog[i][1] = "cancel_begin"
          /\ elog[i][2] # 0
          /\ IsDispatch(elog[j])
          /\ elog[i][2] < elog[j][2] )
        => \E k \in Positions : i < k /\ k < j /\ elog[k] = <<"cancel_end", elog[i][2]>>

(* Register, Cancel, Register: the engine saw register, cancel begin and    *)
(* end, register                                                            *)
CancelOrderingWitness ==
    \E i, j, k, l \in Positions :
        /\ i < j /\ j < k /\ k < l
        /\ elog[i][1] = "register"
        /\ elog[j][1] = "cancel_begin" /\ elog[i][2] < elog[j][2]
        /\ elog[k] = <<"cancel_end", elog[j][2]>>
        /\ elog[l][1] = "register" /\ elog[j][2] < elog[l][2]

(* C3: single fire under fan-out.  For every sign call, however many of its *)
(* Sign actions' callbacks the engine has called and with whatever outcome, *)
(* the caller's handler has been invoked exactly once if any callback was   *)
(* called, by the first of them, and not at all otherwise; a later call of  *)
(* a sibling clone invokes nothing.                                         *)
SingleFire ==
    \A c \in Calls :
        calls[c].kind = "sign" =>
            Len(fired[c]) = IF called[c] > 0 THEN 1 ELSE 0

(* Two clones of one sign call were called, the handler ran once *)
SingleFireWitness ==
    \E c \in Calls :
        calls[c].kind = "sign" /\ called[c] >= 2 /\ Len(fired[c]) = 1

(* The actions of call c that the engine may still complete *)
Outstanding(c) ==
    \/ \E n \in 1..Len(queue) : queue[n].call = c
    \/ \E a \in pending : a.call = c

(* C4: a sign call that returned Ok fires its handler exactly once: never   *)
(* twice, and once none of its attempts is left to complete (none queued,   *)
(* none in flight) the handler has been invoked.                            *)
SignOkFiresExactlyOnce ==
    \A c \in Calls :
        (calls[c].kind = "sign" /\ calls[c].ret = "Ok") =>
            /\ Len(fired[c]) <= 1
            /\ ~Outstanding(c) => Len(fired[c]) = 1

FinalCancels == {i \in Positions : elog[i] = <<"cancel_begin", 0>>}

(* C6: the final cancel.  While the worker is in its loop or in a queued    *)
(* Cancel it has made no final cancel; once it has left the loop it calls   *)
(* the engine's cancel exactly once; and when the thread has ended, that    *)
(* call and its return are the last two engine calls ever made.             *)
FinalCancelOnce ==
    /\ wpc \in {"loop", "recv", "cancel", "final"} => FinalCancels = {}
    /\ wpc \in {"final_cancel", "exited"} => Cardinality(FinalCancels) = 1
    /\ wpc = "final_cancel" => elog[Len(elog)] = <<"cancel_begin", 0>>
    /\ wpc = "exited" =>
          /\ elog[Len(elog) - 1] = <<"cancel_begin", 0>>
          /\ elog[Len(elog)] = <<"cancel_end", 0>>

(* A Register that was dispatched with no queued Cancel after it and was   *)
(* told of its cancellation: it was in flight when the final cancel began   *)
StoppedByFinalCancel(i) ==
    /\ elog[i][1] = "register"
    /\ fired[sent[elog[i][2]].call] = <<"cancelled">>
    /\ \A j \in Positions : (i < j /\ elog[j][1] = "cancel_begin") => elog[j][2] = 0

(* The worker has exited after a final cancel that found a Register in      *)
(* flight                                                                   *)
FinalCancelOnceWitness ==
    /\ wpc = "exited"
    /\ \E i \in Positions : StoppedByFinalCancel(i)

(* C7: teardown.  The drop of the manager has returned only if the worker   *)
(* thread has ended, its final engine cancel made and returned; while the   *)
(* worker is still in its loop or cancelling, the drop has not completed.   *)
DropWaitsForWorker ==
    cpc = "dropped" =>
        /\ wpc = "exited"
        /\ ~alive
        /\ elog # <<>> /\ elog[Len(elog)] = <<"cancel_end", 0>>

(* The manager was dropped with a Register in flight and the drop returned *)
DropWaitsForWorkerWitness ==
    /\ cpc = "dropped"
    /\ \E i \in Positions : StoppedByFinalCancel(i)

-----------------------------------------------------------------------------
(* Properties of one register or sign call, stated of the call that has     *)
(* just returned (SpecArgs)                                                 *)

JustReturned(kind) == last.kind = kind /\ last.ret # "none"

HasOversizedKeyHandle ==
    \E n \in 1..Len(last.keys) : last.keys[n].len > MaxCredentialLen

(* The call has put nothing on the queue: it sent no action, and no action  *)
(* of it is in the send history, on the queue or with the engine            *)
EnqueuedNothing ==
    /\ last.acts = <<>>
    /\ \A n \in 1..Len(sent) : sent[n].call # last.id
    /\ \A n \in 1..Len(queue) : queue[n].call # last.id
    /\ \A a \in pending : a.call # last.id

(* C2: a register or sign call given a key handle whose credential is       *)
(* longer than 256 bytes, at any position of the list, returns an error     *)
(* and has enqueued no action.                                              *)
OversizedKeyHandleEnqueuesNothing ==
    ((JustReturned("register") \/ JustReturned("sign")) /\ HasOversizedKeyHandle)
        => (last.ret = "Err" /\ EnqueuedNothing)

(* C5: sign fan-out.  A sign call that returned Ok with N application ids   *)
(* and M key handles sent exactly N*M actions, all of them Sign; the p-th   *)
(* is for application id ((p-1) div M)+1 and key handle ((p-1) mod M)+1,    *)
(* carrying that application id as relying party and an allow-list of that  *)
(* one key handle; and they are the last N*M actions placed on the queue.   *)
SignFanOut ==
    (JustReturned("sign") /\ last.ret = "Ok") =>
        LET N == Len(last.apps)
            M == Len(last.keys)
        IN  /\ Len(last.acts) = N * M
            /\ Cardinality({n \in 1..Len(sent) : sent[n].call = last.id}) = N * M
            /\ \A p \in 1..(N * M) :
                /\ last.acts[p].type = "Sign"
                /\ last.acts[p].params.rp.hash = last.apps[((p - 1) \div M) + 1]
                /\ last.acts[p].params.allow_list = <<last.keys[((p - 1) % M) + 1]>>
                /\ last.acts[p].seq = Len(sent) - N * M + p
                /\ sent[last.acts[p].seq] = [type |-> "Sign", call |-> last.id]

(* Two different application ids and two different key handles: four Sign  *)
(* actions                                                                  *)
SignFanOutWitness ==
    /\ JustReturned("sign") /\ last.ret = "Ok"
    /\ Len(last.apps) = 2 /\ last.apps[1] # last.apps[2]
    /\ Len(last.keys) = 2 /\ last.keys[1] # last.keys[2]
    /\ Len(last.acts) = 4

(* The request asks for user verification *)
UserVerification(request) ==
    request.options # None /\ request.options[1].user_validation

(* C8: the request enqueued by a register call that returned Ok has its     *)
(* user-verification option set exactly when the flags of the call contain  *)
(* REQUIRE_USER_VERIFICATION.                                               *)
RegisterRequestCarriesUserVerification ==
    (JustReturned("register") /\ last.ret = "Ok") =>
        (UserVerification(last.acts[1].params)
            <=> "REQUIRE_USER_VERIFICATION" \in last.flags)

BadChallenge == last.challenge.len # PARAMETER_SIZE

(* C9: a register or sign call whose challenge is not 32 bytes long, and a  *)
(* register call whose application id is not 32 bytes long, returns an      *)
(* error and has enqueued nothing.                                          *)
BadLengthRejected ==
    ( \/ (JustReturned("register") \/ JustReturned("sign")) /\ BadChallenge
      \/ JustReturned("register") /\ last.apps[1].len # PARAMETER_SIZE )
        => (last.ret = "Err" /\ EnqueuedNothing)

(* A sign call with a 33-byte challenge and otherwise acceptable arguments  *)
(* was rejected while an earlier action was still on the queue              *)
BadLengthRejectedWitness ==
    /\ JustReturned("sign") /\ last.challenge.len = PARAMETER_SIZE + 1
    /\ last.apps # <<>> /\ \A n \in 1..Len(last.apps) : NewHashOk(last.apps[n])
    /\ last.keys # <<>> /\ ~HasOversizedKeyHandle
    /\ last.ret = "Err"
    /\ queue # <<>>

(* C10: a sign call with an empty application-id list returns an error and  *)
(* has enqueued nothing, whatever its key handles are.                      *)
EmptyAppIdsRejected ==
    (JustReturned("sign") /\ last.apps = <<>>)
        => (last.ret = "Err" /\ EnqueuedNothing)

(* A sign call with a good challenge, no application id and an oversized    *)
(* key handle was rejected                                                  *)
EmptyAppIdsRejectedWitness ==
    /\ JustReturned("sign") /\ last.apps = <<>>
    /\ ~BadChallenge
    /\ HasOversizedKeyHandle
    /\ last.ret = "Err"

-----------------------------------------------------------------------------
(* Properties of the register response, stated of the engine completion     *)
(* that has just happened (SpecEncode)                                      *)

JustCompleted == last.kind = "register_result"

(* The attestation object has credential data, a FidoU2F statement and a    *)
(* first certificate                                                        *)
Legacy(attestation_object) ==
    /\ attestation_object.auth_data.credential_data # None
    /\ attestation_object.att_statement.fmt = "FidoU2F"
    /\ attestation_object.att_statement.attestation_cert # <<>>

(* What the caller's handler was given for the completion *)
Delivered == fired[last.id]

(* C11: register response encoding.  When the engine completes a Register   *)
(* with an attestation object that has a FidoU2F statement, the caller's     *)
(* handler is given exactly the bytes 0x05, the public key, one byte, the   *)
(* credential id, the first attestation certificate and the signature, in   *)
(* that order and nothing else.                                             *)
RegisterResponseLayout ==
    (JustCompleted /\ Legacy(last.attestation_object)) =>
        LET data == last.attestation_object.auth_data.credential_data[1]
            stmt == last.attestation_object.att_statement
        IN  /\ Len(Delivered) = 1
            /\ \E len_byte \in 0..255 :
                  Delivered[1].ok = <<5>> \o data.credential_public_key \o <<len_byte>>
                                    \o data.credential_id \o stmt.attestation_cert[1]
                                    \o stmt.sig

(* A 65-byte public key, a 64-byte credential id, two certificates and a    *)
(* signature were encoded and delivered                                     *)
RegisterResponseLayoutWitness ==
    /\ JustCompleted /\ Legacy(last.attestation_object)
    /\ Len(last.attestation_object.auth_data.credential_data[1].credential_public_key) = 65
    /\ Len(last.attestation_object.auth_data.credential_data[1].credential_id) = 64
    /\ Len(last.attestation_object.att_statement.attestation_cert) = 2
    /\ last.attestation_object.att_statement.attestation_cert[1]
         # last.attestation_object.att_statement.attestation_cert[2]
    /\ last.attestation_object.att_statement.sig # <<>>
    /\ Len(Delivered) = 1

(* C16: the length byte of a delivered register response, the byte that     *)
(* follows the public key, equals the length of the credential id, for      *)
(* every credential id of up to 256 bytes.                                  *)
LengthByteIsCredentialIdLength ==
    ( /\ JustCompleted /\ Legacy(last.attestation_object)
      /\ Len(last.attestation_object.auth_data.credential_data[1].credential_id)
            <= MaxCredentialLen
      /\ Len(Delivered) = 1 ) =>
        LET data == last.attestation_object.auth_data.credential_data[1]
        IN  Delivered[1].ok[1 + Len(data.credential_public_key) + 1]
                = Len(data.credential_id)

(* C17: when the engine completes a Register with an attestation object     *)
(* whose statement is not FidoU2F, the transform panics and the caller's    *)
(* handler is given nothing: no success result, whole or partial.           *)
NonLegacyStatementDeliversNothing ==
    (JustCompleted /\ last.attestation_object.att_statement.fmt # "FidoU2F") =>
        /\ last.ret = "panic"
        /\ Delivered = <<>>

(* A statement of another format arrived with credential data present, so   *)
(* that the public key and the credential id had been written already       *)
NonLegacyStatementDeliversNothingWitness ==
    /\ JustCompleted
    /\ last.attestation_object.att_statement.fmt # "FidoU2F"
    /\ last.attestation_object.auth_data.credential_data # None
    /\ last.ret = "panic"

-----------------------------------------------------------------------------
(* Properties of the worker with several calling threads (SpecThreads) *)

(* The engine calls by which the worker hands over an action it dequeued *)
IsDequeue(e) == e[1] \in {"register", "sign"} \/ (e[1] = "cancel_begin" /\ e[2] # 0)
Dequeued == SelectSeq(elog, IsDequeue)

EngineCallOf(type) ==
    IF type = "Register" THEN "register" ELSE IF type = "Sign" THEN "sign" ELSE "cancel_begin"

(* C12: FIFO dispatch.  The actions the worker has handed to the engine are *)
(* the first actions sent, each once and in the order they were sent, every *)
(* one by the engine call of its type; the actions sent after them are on   *)
(* the queue, in the order they were sent.  (The Sign actions of one sign   *)
(* call are sent in loop order, so they are dispatched in loop order.)      *)
FifoDispatch ==
    /\ Len(Dequeued) + Len(queue) = Len(sent)
    /\ \A k \in 1..Len(Dequeued) :
          /\ Dequeued[k][2] = k
          /\ Dequeued[k][1] = EngineCallOf(sent[k].type)
    /\ \A n \in 1..Len(queue) :
          /\ queue[n].seq = Len(Dequeued) + n
          /\ queue[n].type = sent[queue[n].seq].type
          /\ queue[n].call = sent[queue[n].seq].call

(* The two Sign actions of one sign call were dispatched, and a Cancel that *)
(* another thread sent in between them was taken between them               *)
FifoDispatchWitness ==
    \E k \in 1..(Len(Dequeued) - 2) :
        /\ Dequeued[k][1] = "sign"
        /\ Dequeued[k + 1][1] = "cancel_begin"
        /\ Dequeued[k + 2][1] = "sign"
        /\ sent[k].call = sent[k + 2].call

(* C13: mutual exclusion on the engine.  The worker's engine calls follow   *)
(* one another: a cancel that has begun is the last engine call made until  *)
(* it returns, so nothing is dispatched while it is in progress, and it is  *)
(* in progress only while the worker is inside it; every operation the      *)
(* engine runs was started by a dispatch of the worker.  This holds with    *)
(* calls arriving from several threads.                                     *)
EngineMutualExclusion ==
    /\ \A i \in Positions :
          elog[i][1] = "cancel_begin" =>
              IF i = Len(elog)
              THEN Cancelling /\ wcancel = elog[i][2]
              ELSE elog[i + 1] = <<"cancel_end", elog[i][2]>>
    /\ \A i \in Positions :
          elog[i][1] = "cancel_end" =>
              i > 1 /\ elog[i - 1] = <<"cancel_begin", elog[i][2]>>
    /\ Cancelling => (elog # <<>> /\ elog[Len(elog)][1] = "cancel_begin")
    /\ \A a \in pending :
          \E i \in Positions : elog[i] = <<EngineCallOf(a.type), a.seq>>

(* A queued Cancel is in progress with an operation still in flight, while  *)
(* a thread is inside sign, one of its Sign actions waits on the queue, and *)
(* another thread's Cancel has been sent after it                           *)
EngineMutualExclusionWitness ==
    /\ wpc = "cancel"
    /\ pending # {}
    /\ cpc = "signing"
    /\ Len(queue) >= 2
    /\ queue[1].type = "Sign"
    /\ queue[2].type = "Cancel"

-----------------------------------------------------------------------------
(* Progress of the worker (SpecLive) *)

(* Every call of NextLive sends at most one action *)
SeqNumbers == 1..MaxCalls

OnQueue(n) == \E k \in 1..Len(queue) : queue[k].seq = n
TakenByWorker(n) == \E i \in Positions : IsDequeue(elog[i]) /\ elog[i][2] = n

(* C14: non-blocking dispatch.  Every action on the queue, a Cancel among   *)
(* them, is eventually taken off the queue and handed to the engine, unless *)
(* the manager is released; this does not depend on the operations in       *)
(* flight ever ending by themselves (no fairness is assumed of them).       *)
QueuedActionIsProcessed ==
    \A n \in SeqNumbers : OnQueue(n) ~> (TakenByWorker(n) \/ ~alive)

(* The worker is inside a queued Cancel that was sent while the Register    *)
(* dispatched before it was in flight, and that Register is still in flight *)
QueuedActionIsProcessedWitness ==
    /\ alive
    /\ wpc = "cancel"
    /\ elog = <<<<"register", 1>>, <<"cancel_begin", 2>>>>
    /\ \E a \in pending : a.seq = 1

(* C15: worker termination.  Once the liveness flag is cleared (or every    *)
(* sender is gone) the worker thread eventually ends, whether or not        *)
(* anything is ever enqueued, given that the engine's cancel returns.       *)
WorkerTerminates ==
    (~alive \/ SenderGone) ~> (wpc = "exited")

(* The worker has ended though no action was ever sent: the engine saw the  *)
(* final cancel only                                                        *)
WorkerTerminatesWitness ==
    /\ wpc = "exited"
    /\ sent = <<>>
    /\ elog = <<<<"cancel_begin", 0>>, <<"cancel_end", 0>>>>

-----------------------------------------------------------------------------
(* The capability filter (SpecFilter) *)

(* C18: a step that changes the capability filter sets it, from None, to    *)
(* Fido2 and changes nothing else of the manager, the queue, the worker or  *)
(* the engine; so no step of the worker, the engine, register, sign, cancel *)
(* or drop changes the filter, and once set it stays as set.                *)
Fido2CapableFrame ==
    [][filter' # filter =>
          /\ filter = None
          /\ filter' = Some("Fido2")
          /\ UNCHANGED <<queue, alive, wpc, wcancel, pending, taken, fired,
                         cpc, cur, calls, called, sent, elog>>]_vars

(* The filter is set and the manager has since been through calls, a        *)
(* dispatch, a completion and its teardown                                  *)
Fido2CapableFrameWitness ==
    /\ filter = Some("Fido2")
    /\ cpc = "dropped"
    /\ \E c \in Calls : fired[c] # <<>>

-----------------------------------------------------------------------------
(* Synchronous errors and callbacks (Spec) *)

(* C19: the handler of a register or sign call that returned an error to    *)
(* its caller is never invoked: no call has both returned Err and had its   *)
(* handler run.                                                             *)
ErrorMeansNoCallback ==
    \A c \in Calls :
        (calls[c].kind \in {"register", "sign"} /\ calls[c].ret = "Err")
            => fired[c] = <<>>

-----------------------------------------------------------------------------
(* The worker after the liveness flag is cleared (SpecLive) *)

LeftLoop == wpc \in {"final", "final_cancel", "exited"}

(* C20: from any moment at which the liveness flag is cleared, the worker   *)
(* takes at most one more action off the queue and hands it to the engine;  *)
(* once it has left its loop it takes none: what is on the queue then stays *)
(* there, through the final cancel and after the thread has ended.          *)
AtMostOneDispatchAfterFlagCleared ==
    /\ \A n \in 0..MaxCalls :
          []((~alive /\ Len(Dequeued) = n) => [](Len(Dequeued) <= n + 1))
    /\ [][LeftLoop => (queue' = queue /\ Dequeued' = Dequeued)]_vars

(* The worker thread has ended after handing actions to the engine, the     *)
(* flag cleared, and two actions are left on the queue, not dispatched      *)
AtMostOneDispatchAfterFlagClearedWitness ==
    /\ ~alive
    /\ wpc = "exited"
    /\ Dequeued # <<>>
    /\ Len(queue) = 2
    /\ \A k \in 1..Len(queue) : ~TakenByWorker(queue[k].seq)

====
